---- MODULE Spec2Model ----
(***************************************************************************)
(* Model of OrbigenPython.py: the Horizons report parser inside            *)
(* get_planet_coords, the single-view builder visualize_orbits and the     *)
(* multi-view builder create_multi_center_visualization.                   *)
(*                                                                         *)
(* Text is a sequence of tokens.  A token is an atom of the report: a      *)
(* newline, a blank, a sentinel, a coordinate label, a numeric literal or  *)
(* a word.  No concatenation of tokens of the alphabet forms a sentinel or *)
(* a label, so str.split on it is a split on one token.                    *)
(***************************************************************************)
EXTENDS Integers, Sequences, FiniteSets, TLC

\* ------------------------------------------------------------------ bounds
MaxGroups == 2      \* complete 4-line records in a generated report
MaxBodies == 3      \* length of planets_config
MaxViews  == 2      \* length of center_indices
MaxLong   == 1      \* answers with more than one record during one build

\* ---------------------------------------------------------------- alphabet
NL  == "\n"
SP  == " "
SOE == "$$SOE"
EOE == "$$EOE"
LX  == "X ="
LY  == "Y ="
LZ  == "Z ="
GroupSize == 4

\* float() on the numeric literals of the alphabet, in hundredths
FloatTable == [lit \in {"1.5", "-2.25", "0.0", "3.0"} |->
                 CASE lit = "1.5"   -> 150
                   [] lit = "-2.25" -> -225
                   [] lit = "0.0"   -> 0
                   [] lit = "3.0"   -> 300]

IsSpace(t) == t \in {SP, NL}

\* ------------------------------------------------------- string operations
\* str.split(sep): the pieces between the occurrences of sep
split(s, sep) ==
  LET at == {p \in 1..Len(s) : s[p] = sep}
      cut(k) == IF k = 0 THEN 0
                ELSE IF k > Cardinality(at) THEN Len(s) + 1
                ELSE CHOOSE p \in at : Cardinality({q \in at : q < p}) = k - 1
  IN  [k \in 1..(Cardinality(at) + 1) |-> SubSeq(s, cut(k - 1) + 1, cut(k) - 1)]

\* str.strip(): without the blanks and newlines at both ends
strip(s) ==
  LET ink == {p \in 1..Len(s) : ~IsSpace(s[p])}
  IN  IF ink = {} THEN <<>>
      ELSE SubSeq(s, CHOOSE p \in ink : \A q \in ink : p <= q,
                     CHOOSE p \in ink : \A q \in ink : q <= p)

\* str.splitlines(): no empty last line after a final newline
splitlines(s) ==
  LET p == split(s, NL)
  IN  IF p[Len(p)] = <<>> THEN SubSeq(p, 1, Len(p) - 1) ELSE p

\* blank lines are stripped but kept in the list
StripKeepBlank(ls) == [j \in 1..Len(ls) |-> strip(ls[j])]

\* [line.strip() for line in ... if line.strip()]
StripNonBlank(ls) ==
  LET NonBlank(l) == l # <<>>
  IN  SelectSeq([j \in 1..Len(ls) |-> strip(ls[j])], NonBlank)

\* float(str): one numeric literal, blanks around it allowed
FloatOk(s) == Len(strip(s)) = 1 /\ strip(s)[1] \in DOMAIN FloatTable
float(s)   == FloatTable[strip(s)[1]]

Raised(e)    == [err |-> e, coords |-> <<>>]
Returned(cs) == [err |-> "none", coords |-> cs]

\* lines 47-51: one position line to [x, y, z]
ParsePosLine(pos_line) ==
  LET byX == split(pos_line, LX)
      byY == split(pos_line, LY)
      byZ == split(pos_line, LZ)
  IN  IF Len(byX) < 2 \/ Len(byY) < 2 \/ Len(byZ) < 2 THEN Raised("IndexError")
      ELSE LET x_str == strip(split(byX[2], LY)[1])
               y_str == strip(split(byY[2], LZ)[1])
               z_str == strip(byZ[2])
           IN  IF FloatOk(x_str) /\ FloatOk(y_str) /\ FloatOk(z_str)
               THEN Returned(<< <<float(x_str), float(y_str), float(z_str)>> >>)
               ELSE Raised("ValueError")

\* lines 46-51: for i in range(0, len(lines), 4)
RECURSIVE ParseLoop(_, _, _)
ParseLoop(lines, i, coords) ==
  IF i >= Len(lines) THEN Returned(coords)
  ELSE IF i + 1 >= Len(lines) THEN Raised("IndexError")
       ELSE LET p == ParsePosLine(lines[i + 2])
            IN  IF p.err # "none" THEN p
                ELSE ParseLoop(lines, i + GroupSize, coords \o p.coords)

\* lines 42-53: the parsing half of get_planet_coords
ParseCoords(text) ==
  LET bySOE == split(text, SOE)
  IN  IF Len(bySOE) < 2 THEN Raised("IndexError")
      ELSE LET data_section == split(bySOE[2], EOE)[1]
               lines == StripNonBlank(splitlines(strip(data_section)))
           IN  ParseLoop(lines, 0, <<>>)

\* ------------------------------------------------------ generated reports
\* the line kinds of a report
TextLine == <<"JD">>
VelLine  == <<SP, "VX=", "1.5", SP, "VY=", "0.0">>
PosA     == <<SP, LX, SP, "1.5", SP, LY, "-2.25", SP, LZ, SP, "0.0">>
PosB     == <<LX, "3.0", SP, SP, LY, SP, "0.0", LZ, "1.5", SP>>
PosBad   == <<SP, LX, SP, "n.a.", SP, LY, "-2.25", SP, LZ, SP, "0.0">>
PosValue == [k \in {"A", "B"} |->
               IF k = "A" THEN <<150, -225, 0>> ELSE <<300, 0, 150>>]

\* the 4-line records of a report, by kind
GroupLines == [g \in {"A", "B", "Bad", "NoLabel"} |->
                 CASE g = "A"       -> <<TextLine, PosA, VelLine, TextLine>>
                   [] g = "B"       -> <<TextLine, PosB, VelLine, TextLine>>
                   [] g = "Bad"     -> <<TextLine, PosBad, VelLine, TextLine>>
                   [] g = "NoLabel" -> <<TextLine, VelLine, VelLine, TextLine>>]
GroupKinds == DOMAIN GroupLines

\* the lines of an incomplete last record
TailLines == [t \in {"T", "P"} |-> IF t = "T" THEN TextLine ELSE PosA]

Header == TextLine \o <<NL>> \o PosB \o <<NL>>
Footer == PosB \o <<NL>> \o TextLine \o <<NL>>
Shapes == {"full", "bare", "noSOE", "noEOE", "none"}

SeqsUpTo(S, n) == UNION {[1..m -> S] : m \in 0..n}

RECURSIVE Flatten(_)
Flatten(ss) == IF ss = <<>> THEN <<>> ELSE Head(ss) \o Flatten(Tail(ss))

RECURSIVE JoinLines(_)
JoinLines(ls) == IF ls = <<>> THEN <<>> ELSE Head(ls) \o <<NL>> \o JoinLines(Tail(ls))

\* the non-blank lines of the data block of a generated report
DataLines(src) ==
  Flatten([j \in 1..Len(src.groups) |-> GroupLines[src.groups[j]]])
    \o [j \in 1..Len(src.tail) |-> TailLines[src.tail[j]]]

\* an empty line and a line of blanks before data line blankAt (0: none)
WithBlank(ls, blankAt) ==
  IF blankAt = 0 THEN ls
  ELSE SubSeq(ls, 1, blankAt - 1) \o << <<>>, <<SP, SP>> >> \o SubSeq(ls, blankAt, Len(ls))

\* result["result"]: the report text of a generated report
Render(src) ==
  LET body == JoinLines(WithBlank(DataLines(src), src.blankAt))
  IN  CASE src.shape = "full"  -> Header \o <<SOE, NL>> \o body \o <<EOE, NL>> \o Footer
        [] src.shape = "bare"  -> <<SOE, NL>> \o body \o <<EOE>>
        [] src.shape = "noSOE" -> Header \o body \o <<EOE, NL>> \o Footer
        [] src.shape = "noEOE" -> Header \o <<SOE, NL>> \o body
        [] src.shape = "none"  -> Header \o body \o Footer

ReportSrcs ==
  {s \in [shape : Shapes, groups : SeqsUpTo(GroupKinds, MaxGroups),
          tail : SeqsUpTo(DOMAIN TailLines, GroupSize - 1),
          blankAt : 0..(GroupSize * MaxGroups + GroupSize)] :
     s.blankAt <= Len(s.groups) * GroupSize + Len(s.tail) + 1}

Pending == [err |-> "pending", coords |-> <<>>]
NoSrc   == [shape |-> "none", groups |-> <<>>, tail |-> <<>>, blankAt |-> 0]

\* ------------------------------------------------------------------ state
VARIABLES
  reportSrc,       \* the generated report handed to the parser
  report,          \* result["result"], the report text
  parsed,          \* what the parsing half of get_planet_coords gave
  pc,              \* position of the running build
  fn,              \* the builder that was called
  planets_config,  \* the body list
  center_index,    \* visualize_orbits: the reference index
  center_indices,  \* create_multi_center_visualization: the reference indices
  view_idx,        \* views built so far
  i,               \* index of the body loop
  fig_data,        \* fig.data, the flat trace list
  group_traces,    \* trace positions of the view being built
  trace_groups,    \* trace positions of every built view
  buttons,         \* the visibility list of every button
  requests,        \* every get_planet_coords call made, with its outcome
  err,             \* the exception that ended the build
  visible,         \* the visible attribute of every trace of the figure
  selected         \* the button selected last (0: none yet)

parserVars == <<reportSrc, report, parsed>>
buildVars  == <<pc, fn, planets_config, center_index, center_indices, view_idx,
                i, fig_data, group_traces, trace_groups, buttons, requests,
                err, visible, selected>>
vars == <<reportSrc, report, parsed, pc, fn, planets_config, center_index,
          center_indices, view_idx, i, fig_data, group_traces, trace_groups,
          buttons, requests, err, visible, selected>>

\* ----------------------------------------------------------------- inputs
\* lines 56-65: the module's planet list; a body list is a prefix of it
planets == << [id |-> "10",  name |-> "Sun"],     [id |-> "301", name |-> "Moon"],
             [id |-> "199", name |-> "Mercury"], [id |-> "299", name |-> "Venus"],
             [id |-> "399", name |-> "Earth"],   [id |-> "499", name |-> "Mars"],
             [id |-> "599", name |-> "Jupiter"], [id |-> "699", name |-> "Saturn"] >>
Configs  == {SubSeq(planets, 1, n) : n \in 0..MaxBodies}
Indices  == (0 - 2)..MaxBodies

\* what the service can answer to one request
GoodOne    == [shape |-> "full", groups |-> <<"A">>, tail |-> <<>>, blankAt |-> 0]
GoodTwo    == [shape |-> "bare", groups |-> <<"B", "A">>, tail |-> <<>>, blankAt |-> 5]
EmptyBlock == [shape |-> "full", groups |-> <<>>, tail |-> <<>>, blankAt |-> 0]
NoStart    == [shape |-> "noSOE", groups |-> <<"A">>, tail |-> <<>>, blankAt |-> 0]
Responses  == {[net |-> "URLError", text |-> <<>>]} \cup
              {[net |-> "ok", text |-> Render(s)] : s \in {GoodOne, GoodTwo, EmptyBlock, NoStart}}

\* lines 37-53: urlopen raises, or the report is parsed
get_planet_coords(resp) ==
  IF resp.net # "ok" THEN Raised(resp.net) ELSE ParseCoords(resp.text)

\* what one call of get_planet_coords can give
Outcomes == {get_planet_coords(resp) : resp \in Responses}

\* Python list indexing: -n..n-1 are the valid indices of a list of length n
PyIndexOk(n, idx) == 0 - n <= idx /\ idx < n
PyIndex(seq, idx) == IF idx >= 0 THEN seq[idx + 1] ELSE seq[Len(seq) + idx + 1]

\* x, y, z = zip(*coords)
Column(coords, c) == [j \in 1..Len(coords) |-> coords[j][c]]

\* the center trace without its sample at the origin
OriginTraceEmpty(center_name) ==
  [name |-> center_name, mode |-> "markers", x |-> <<>>, y |-> <<>>, z |-> <<>>]

LineTrace(planet, coords) ==
  [name |-> planet.name, mode |-> "lines",
   x |-> Column(coords, 1), y |-> Column(coords, 2), z |-> Column(coords, 3)]
OriginTrace(center_name) ==
  [name |-> center_name, mode |-> "markers", x |-> <<0>>, y |-> <<0>>, z |-> <<0>>]

\* get_planet_coords called with its two arguments exchanged
RequestSwapped(target, center, out) == [target |-> center, center |-> target, out |-> out]

Request(target, center, out) == [target |-> target, center |-> center, out |-> out]

\* what the next call can give: the service sends a report of several records
\* at most MaxLong times during one build
Answers ==
  {out \in Outcomes :
     Len(out.coords) > 1 =>
        Cardinality({j \in 1..Len(requests) : Len(requests[j].out.coords) > 1}) < MaxLong}

Init ==
  /\ reportSrc = NoSrc /\ report = <<>> /\ parsed = Pending
  /\ pc = "idle" /\ fn = "none"
  /\ planets_config = <<>> /\ center_index = 0 /\ center_indices = <<>>
  /\ view_idx = 0 /\ i = 0
  /\ fig_data = <<>> /\ group_traces = <<>> /\ trace_groups = <<>>
  /\ buttons = <<>> /\ requests = <<>> /\ err = "none"
  /\ visible = <<>> /\ selected = 0

\* the exception is caught and the loop goes on
RaiseSwallowed(e) == pc' = pc /\ err' = e

\* an exception leaves the builder: nothing catches it
Raise(e) == pc' = "raised" /\ err' = e

\* ------------------------------------------------------- visualize_orbits
\* lines 67-80: the call, up to the lookup of the center planet
visualize_orbits(cfg, r) ==
  /\ pc = "idle"
  /\ fn' = "visualize_orbits" /\ planets_config' = cfg /\ center_index' = r
  /\ IF PyIndexOk(Len(cfg), r) THEN pc' = "vo_loop" /\ err' = err
                               ELSE Raise("IndexError")
  /\ UNCHANGED <<center_indices, view_idx, i, fig_data, group_traces,
                 trace_groups, buttons, requests, visible, selected>>
  /\ UNCHANGED parserVars

\* lines 83-94: one iteration for a body that is not the center
vo_fetch ==
  /\ pc = "vo_loop" /\ i < Len(planets_config) /\ i # center_index
  /\ \E out \in Answers :
       LET planet == planets_config[i + 1]
           center_planet_id == PyIndex(planets_config, center_index).id
       IN  /\ requests' = Append(requests, Request(planet.id, center_planet_id, out))
           /\ IF out.err # "none"
              THEN Raise(out.err) /\ UNCHANGED <<i, fig_data>>
              ELSE IF out.coords = <<>>
                   THEN Raise("ValueError") /\ UNCHANGED <<i, fig_data>>
                   ELSE /\ fig_data' = Append(fig_data, LineTrace(planet, out.coords))
                        /\ i' = i + 1
                        /\ UNCHANGED <<pc, err>>
  /\ UNCHANGED <<fn, planets_config, center_index, center_indices, view_idx,
                 group_traces, trace_groups, buttons, visible, selected>>
  /\ UNCHANGED parserVars

\* lines 95-102: the iteration for the center body
vo_center ==
  /\ pc = "vo_loop" /\ i < Len(planets_config) /\ i = center_index
  /\ fig_data' = Append(fig_data, OriginTrace(PyIndex(planets_config, center_index).name))
  /\ i' = i + 1
  /\ UNCHANGED <<pc, fn, planets_config, center_index, center_indices, view_idx,
                 group_traces, trace_groups, buttons, requests, err, visible, selected>>
  /\ UNCHANGED parserVars

\* lines 104-136: layout and return; traces default to visible
vo_return ==
  /\ pc = "vo_loop" /\ i = Len(planets_config)
  /\ pc' = "returned"
  /\ visible' = [j \in 1..Len(fig_data) |-> TRUE]
  /\ UNCHANGED <<fn, planets_config, center_index, center_indices, view_idx, i,
                 fig_data, group_traces, trace_groups, buttons, requests, err, selected>>
  /\ UNCHANGED parserVars

\* -------------------------------------- create_multi_center_visualization
\* lines 139-155: the call; the first loop looks every center index up
create_multi_center_visualization(cfg, rs) ==
  /\ pc = "idle"
  /\ fn' = "create_multi_center_visualization"
  /\ planets_config' = cfg /\ center_indices' = rs
  /\ IF \A v \in 1..Len(rs) : PyIndexOk(Len(cfg), rs[v])
     THEN pc' = "mc_view" /\ err' = err
     ELSE Raise("IndexError")
  /\ UNCHANGED <<center_index, view_idx, i, fig_data, group_traces,
                 trace_groups, buttons, requests, visible, selected>>
  /\ UNCHANGED parserVars

\* lines 157-164: the next view begins
mc_view_begin ==
  /\ pc = "mc_view" /\ view_idx < Len(center_indices)
  /\ pc' = "mc_loop" /\ group_traces' = <<>> /\ i' = 0
  /\ UNCHANGED <<fn, planets_config, center_index, center_indices, view_idx,
                 fig_data, trace_groups, buttons, requests, err, visible, selected>>
  /\ UNCHANGED parserVars

\* lines 166-179: one iteration for a body that is not the center of the view
mc_fetch ==
  /\ pc = "mc_loop" /\ i < Len(planets_config)
  /\ i # center_indices[view_idx + 1]
  /\ \E out \in Answers :
       LET planet == planets_config[i + 1]
           center_planet_id == PyIndex(planets_config, center_indices[view_idx + 1]).id
       IN  /\ requests' = Append(requests, Request(planet.id, center_planet_id, out))
           /\ IF out.err # "none"
              THEN Raise(out.err) /\ UNCHANGED <<i, fig_data, group_traces>>
              ELSE IF out.coords = <<>>
                   THEN Raise("ValueError") /\ UNCHANGED <<i, fig_data, group_traces>>
                   ELSE /\ fig_data' = Append(fig_data, LineTrace(planet, out.coords))
                        /\ group_traces' = Append(group_traces, Len(fig_data') - 1)
                        /\ i' = i + 1
                        /\ UNCHANGED <<pc, err>>
  /\ UNCHANGED <<fn, planets_config, center_index, center_indices, view_idx,
                 trace_groups, buttons, visible, selected>>
  /\ UNCHANGED parserVars

\* lines 180-189: the iteration for the center body of the view
mc_center ==
  /\ pc = "mc_loop" /\ i < Len(planets_config)
  /\ i = center_indices[view_idx + 1]
  /\ fig_data' = Append(fig_data,
        OriginTrace(PyIndex(planets_config, center_indices[view_idx + 1]).name))
  /\ group_traces' = Append(group_traces, Len(fig_data') - 1)
  /\ i' = i + 1
  /\ UNCHANGED <<pc, fn, planets_config, center_index, center_indices, view_idx,
                 trace_groups, buttons, requests, err, visible, selected>>
  /\ UNCHANGED parserVars

\* line 191: the view is complete
mc_view_end ==
  /\ pc = "mc_loop" /\ i = Len(planets_config)
  /\ trace_groups' = Append(trace_groups, group_traces)
  /\ view_idx' = view_idx + 1
  /\ pc' = "mc_view"
  /\ UNCHANGED <<fn, planets_config, center_index, center_indices, i, fig_data,
                 group_traces, buttons, requests, err, visible, selected>>
  /\ UNCHANGED parserVars

\* the positions of the group taken as counted from 1
VisibilityListFromOne(total, group) ==
  [p \in 1..total |-> \E g \in 1..Len(group) : group[g] = p]

\* lines 198-200: all False, then True at the trace positions of the group
VisibilityList(total, group) ==
  [p \in 1..total |-> \E g \in 1..Len(group) : group[g] = p - 1]

\* lines 193-256: the buttons, the layout (center_indices[0]) and the return
mc_finish ==
  /\ pc = "mc_view" /\ view_idx = Len(center_indices)
  /\ buttons' = [v \in 1..Len(center_indices) |->
                   VisibilityList(Len(fig_data), trace_groups[v])]
  /\ IF center_indices = <<>>
     THEN Raise("IndexError") /\ UNCHANGED visible
     ELSE /\ pc' = "returned" /\ err' = err
          /\ visible' = [j \in 1..Len(fig_data) |-> TRUE]
  /\ UNCHANGED <<fn, planets_config, center_index, center_indices, view_idx, i,
                 fig_data, group_traces, trace_groups, requests, selected>>
  /\ UNCHANGED parserVars

\* a button that only shows traces and hides none
select_additive(v) ==
  /\ pc = "returned" /\ fn = "create_multi_center_visualization"
  /\ v \in 1..Len(buttons)
  /\ visible' = [p \in 1..Len(visible) |-> visible[p] \/ buttons[v][p]]
  /\ selected' = v
  /\ UNCHANGED <<pc, fn, planets_config, center_index, center_indices, view_idx, i,
                 fig_data, group_traces, trace_groups, buttons, requests, err>>
  /\ UNCHANGED parserVars

\* lines 202-210, 239-251: a button restyles "visible" of every trace
select(v) ==
  /\ pc = "returned" /\ fn = "create_multi_center_visualization"
  /\ v \in 1..Len(buttons)
  /\ visible' = buttons[v]
  /\ selected' = v
  /\ UNCHANGED <<pc, fn, planets_config, center_index, center_indices, view_idx, i,
                 fig_data, group_traces, trace_groups, buttons, requests, err>>
  /\ UNCHANGED parserVars

\* the calls a caller can make on the idle module
CenterLists == SeqsUpTo(Indices, MaxViews)

call_single ==
  pc = "idle" /\ \E cfg \in Configs, r \in Indices : visualize_orbits(cfg, r)

call_multi ==
  pc = "idle" /\ \E cfg \in Configs, rs \in CenterLists :
                    create_multi_center_visualization(cfg, rs)

click == pc = "returned" /\ \E v \in 1..Len(buttons) : select(v)

Next ==
  \/ call_single
  \/ vo_fetch
  \/ vo_center
  \/ vo_return
  \/ call_multi
  \/ mc_view_begin
  \/ mc_fetch
  \/ mc_center
  \/ mc_view_end
  \/ mc_finish
  \/ click

Spec == Init /\ [][Next]_vars

\* ------------------------------------------------- the parser on its own
InitParser ==
  /\ reportSrc \in ReportSrcs /\ report = Render(reportSrc) /\ parsed = Pending
  /\ pc = "idle" /\ fn = "none"
  /\ planets_config = <<>> /\ center_index = 0 /\ center_indices = <<>>
  /\ view_idx = 0 /\ i = 0
  /\ fig_data = <<>> /\ group_traces = <<>> /\ trace_groups = <<>>
  /\ buttons = <<>> /\ requests = <<>> /\ err = "none"
  /\ visible = <<>> /\ selected = 0

\* lines 42-53 applied to the report text
parse_coordinates ==
  /\ parsed = Pending
  /\ parsed' = ParseCoords(report)
  /\ UNCHANGED <<reportSrc, report>>
  /\ UNCHANGED buildVars

NextParser == parse_coordinates

SpecParser == InitParser /\ [][NextParser]_vars

\* ------------------------------------------------------------- properties
NBodies == Len(planets_config)
NViews  == Len(center_indices)
SingleReturned == pc = "returned" /\ fn = "visualize_orbits"
MultiReturned  == pc = "returned" /\ fn = "create_multi_center_visualization"
IsOrigin(t) == t.mode = "markers" /\ t.x = <<0>> /\ t.y = <<0>> /\ t.z = <<0>>
TruePositions(mask) == {p \in 1..Len(mask) : mask[p]}
\* the flat positions (from 1) of the n traces appended while building view v
ViewPositions(v) == {p \in 1..(NViews * NBodies) : (v - 1) * NBodies < p /\ p <= v * NBodies}

\* C1: a returned single view over n bodies with reference index r in 0..n-1
\* has exactly n traces; the trace at r is the one-sample origin trace, every
\* other trace is a fetched line trace, and n-1 requests were made.
C1_OriginAtReference ==
  (SingleReturned /\ center_index \in 0..(NBodies - 1)) =>
     /\ Len(fig_data) = NBodies
     /\ IsOrigin(fig_data[center_index + 1])
     /\ \A p \in 1..NBodies : p # center_index + 1 =>
           fig_data[p].mode = "lines" /\ ~IsOrigin(fig_data[p])
     /\ Len(requests) = NBodies - 1

C1_Witness ==
  /\ SingleReturned /\ NBodies = 3 /\ center_index = 1
  /\ Len(fig_data[1].x) = 2 /\ Len(fig_data[3].x) = 1

\* the request (from 1) that fetched body idx (from 0) of a single view
RequestOf(idx) == Cardinality({j \in 0..idx : j # center_index})

\* C2: in a returned single view the trace at position i carries the name of
\* body i, and for i other than the reference index its samples are those of
\* the request made with target bodies[i].id and center bodies[r].id.
C2_OrderAndFetch ==
  SingleReturned =>
    \A idx \in 0..(NBodies - 1) :
      /\ fig_data[idx + 1].name = planets_config[idx + 1].name
      /\ idx # center_index =>
           LET q == requests[RequestOf(idx)]
               c == IF center_index >= 0 THEN planets_config[center_index + 1]
                    ELSE planets_config[NBodies + center_index + 1]
               t == fig_data[idx + 1]
           IN  /\ q.target = planets_config[idx + 1].id
               /\ q.center = c.id
               /\ q.out.err = "none"
               /\ Len(t.x) = Len(q.out.coords) /\ Len(t.y) = Len(t.x) /\ Len(t.z) = Len(t.x)
               /\ \A j \in 1..Len(t.x) : <<t.x[j], t.y[j], t.z[j]>> = q.out.coords[j]

C2_Witness ==
  /\ SingleReturned /\ NBodies = 3 /\ center_index = 1
  /\ Len(fig_data[1].x) = 1 /\ Len(fig_data[3].x) = 2
  /\ requests[2].target = "199" /\ requests[2].center = "301"

\* C3: in a returned multi view over n bodies and k reference indices every
\* mask has length k*n, the mask of view v is true exactly at the positions of
\* the traces appended for view v, so it has n true entries, and the true sets
\* of the masks are pairwise disjoint and cover the flat trace list.
C3_MasksPartition ==
  MultiReturned =>
    /\ Len(fig_data) = NViews * NBodies
    /\ Len(buttons) = NViews
    /\ \A v \in 1..NViews :
         /\ Len(buttons[v]) = Len(fig_data)
         /\ TruePositions(buttons[v]) = ViewPositions(v)
         /\ Cardinality(TruePositions(buttons[v])) = NBodies
    /\ \A v, w \in 1..NViews :
         v # w => TruePositions(buttons[v]) \cap TruePositions(buttons[w]) = {}
    /\ UNION {TruePositions(buttons[v]) : v \in 1..NViews} = 1..Len(fig_data)

C3_Witness ==
  /\ MultiReturned /\ NBodies = 3 /\ center_indices = <<1, 1>>
  /\ buttons[2] = <<FALSE, FALSE, FALSE, TRUE, TRUE, TRUE>>

\* a reference index the call was given that is not in 0..n-1, or no body
InvalidInput ==
  \/ fn # "none" /\ NBodies = 0
  \/ fn = "visualize_orbits" /\ center_index \notin 0..(NBodies - 1)
  \/ /\ fn = "create_multi_center_visualization"
     /\ \E v \in 1..NViews : center_indices[v] \notin 0..(NBodies - 1)

\* C4: a build called with an empty body list or with a reference index
\* outside 0..n-1 never issues a request and never returns a scene.
C4_InvalidInputFailsEagerly ==
  InvalidInput => requests = <<>> /\ pc # "returned"

\* C5: a request whose fetch or parse raised is the last request of the build,
\* the build has ended with that very error and nothing was returned.
C5_FailFast ==
  \A j \in 1..Len(requests) :
    requests[j].out.err # "none" =>
      /\ j = Len(requests)
      /\ pc = "raised"
      /\ err = requests[j].out.err
      /\ visible = <<>> /\ buttons = <<>>

C5_Witness ==
  /\ pc = "raised" /\ err = "URLError"
  /\ fn = "create_multi_center_visualization"
  /\ view_idx = 1 /\ Len(fig_data) = 4 /\ Len(requests) = 4

\* the (target, center) pairs a multi view over valid indices has to request
RECURSIVE ExpectedPairs(_, _)
ExpectedPairs(v, idx) ==
  IF v > NViews THEN <<>>
  ELSE IF idx >= NBodies THEN ExpectedPairs(v + 1, 0)
  ELSE IF idx = center_indices[v] THEN ExpectedPairs(v, idx + 1)
  ELSE << <<planets_config[idx + 1].id,
            (IF center_indices[v] >= 0 THEN planets_config[center_indices[v] + 1]
             ELSE planets_config[NBodies + center_indices[v] + 1]).id>> >>
         \o ExpectedPairs(v, idx + 1)

\* C6: a returned multi view has made exactly k*(n-1) requests, the pairs
\* (bodies[i].id, bodies[r_v].id) for v = 1..k and i = 0..n-1 with i # r_v in
\* that order, none of them for a reference body relative to itself.
C6_RequestSequence ==
  MultiReturned =>
    /\ Len(requests) = NViews * (NBodies - 1)
    /\ [j \in 1..Len(requests) |-> <<requests[j].target, requests[j].center>>]
         = ExpectedPairs(1, 0)
    /\ \A j \in 1..Len(requests) : requests[j].target # requests[j].center

\* the number of non-blank lines between the sentinels of the generated report
DataLineCount == Len(reportSrc.groups) * GroupSize + Len(reportSrc.tail)
ParserDone == parsed # Pending

\* C7: the parser raises whenever the start sentinel or the end sentinel is
\* missing from the report text.
C7_MissingSentinelFails ==
  (ParserDone /\ reportSrc.shape \in {"noSOE", "noEOE", "none"}) => parsed.err # "none"

\* C8: the parser raises whenever the number of non-blank lines between the
\* sentinels is 0 or not a multiple of 4.
C8_BadLineCountFails ==
  (/\ ParserDone /\ reportSrc.shape \in {"full", "bare"}
   /\ (DataLineCount = 0 \/ DataLineCount % GroupSize # 0)) => parsed.err # "none"

\* both sentinels, m >= 1 complete records, each with a position line second
WellFormed(src) ==
  /\ src.shape \in {"full", "bare"}
  /\ src.tail = <<>>
  /\ src.groups # <<>>
  /\ \A g \in 1..Len(src.groups) : src.groups[g] \in DOMAIN PosValue

\* C9: for a well-formed report of m records the parser returns m samples,
\* sample k being the X, Y, Z of the second line of record k, whatever blank
\* lines lie between and whatever text lies outside the sentinels.
C9_WellFormedParses ==
  (ParserDone /\ WellFormed(reportSrc)) =>
     /\ parsed.err = "none"
     /\ Len(parsed.coords) = Len(reportSrc.groups)
     /\ \A g \in 1..Len(reportSrc.groups) :
          parsed.coords[g] = PosValue[reportSrc.groups[g]]

C9_Witness ==
  /\ ParserDone /\ reportSrc.shape = "full"
  /\ reportSrc.groups = <<"B", "A">> /\ reportSrc.blankAt = 2
  /\ parsed.coords = << <<300, 0, 150>>, <<150, -225, 0>> >>

\* C10: once a button has been selected on a returned multi view, the visible
\* traces are exactly those of the view selected last, and the trace list is
\* what the build returned.
C10_LastSelectionWins ==
  (MultiReturned /\ selected # 0) =>
     /\ Len(visible) = Len(fig_data)
     /\ Len(fig_data) = NViews * NBodies
     /\ TruePositions(visible) = ViewPositions(selected)

C10_Witness ==
  /\ MultiReturned /\ selected = 1 /\ NViews = 2 /\ NBodies = 2
  /\ visible = <<TRUE, TRUE, FALSE, FALSE>>
====
